---- MODULE Spec2Model ----
(***************************************************************************)
(* Model of the vehiclevue Home Assistant integration (rtivolle/emhacs):   *)
(*   - custom_components/vehiclevue/sensor.py      (coordinator revision)  *)
(*   - vehiclevue-main/.../vehiclevue/sensor.py    (standalone revision)   *)
(*   - scripts/dev_check.py, scripts/verify_charger.py                     *)
(*                                                                         *)
(* Numbers are exact fixed-point integers:                                 *)
(*   amps    : multiples of 1/AmpScale A                                   *)
(*   usage   : multiples of 1/KwhScale kWh                                 *)
(*   kW      : multiples of 1/KwScale kW (3 decimals = what round(_, 3)    *)
(*             keeps)                                                      *)
(* An optional value (Python None or a value) is <<>> or <<v>>.            *)
(***************************************************************************)
EXTENDS Integers, Sequences, FiniteSets, TLC

\* ------------------------------------------------------------------ bounds

MaxCycle == 2

MaxChannels == 3

MaxFetches == 2

MaxRate == 12

\* ------------------------------------------------------------------ units

AmpScale == 10 * 10

KwhScale == 10 * 1000 * 1000

KwScale == 10 * 10 * 10

\* x/AmpScale * V / 1000 kW is (x * V) / AmpPerKw units of 1/KwScale kW.
AmpPerKw == (1000 * AmpScale) \div KwScale

\* x/KwhScale * 3600 kW is (x * 3600) / KwhPerKw units of 1/KwScale kW.
KwhPerKw == KwhScale \div KwScale

\* ------------------------------------------------------------------ optionals

None == << >>

Some(v) == << v >>

IsNone(o) == o = None

Val(o) == o[1]

\* ------------------------------------------------------------------ constants

ASSUMED_VOLTAGE == 240

VERIFY_ASSUMED_VOLTAGE == 240

\* The poll cache's time to live, in seconds.
TTL_SECONDS == 2

\* The clock runs until two calls can be TTL_SECONDS apart.
MaxTime == TTL_SECONDS

\* round(x, 3) of the exact rational num/den (>= 0), in 1/KwScale units:
\* Python rounds half to even.
Round3(num, den) ==
    LET q == num \div den
        r == num % den
    IN  IF 2 * r < den THEN q
        ELSE IF 2 * r > den THEN q + 1
        ELSE IF q % 2 = 0 THEN q ELSE q + 1

\* ------------------------------------------------------------------ amps -> kW

\* ChargerPowerSensor._calculate_kw
Mut_calculate_kw_floor(charging_rate) ==
    IF IsNone(charging_rate) THEN None
    ELSE Some((Val(charging_rate) * ASSUMED_VOLTAGE) \div AmpPerKw)

calculate_kw(charging_rate) ==
    IF IsNone(charging_rate) THEN None
    ELSE Some(Round3(Val(charging_rate) * ASSUMED_VOLTAGE, AmpPerKw))

\* verify_charger.estimate_kw
estimate_kw(amps) ==
    IF IsNone(amps) THEN None
    ELSE Some(Round3(Val(amps) * VERIFY_ASSUMED_VOLTAGE, AmpPerKw))

\* dev_check.main, line 69: kw = round((c.charging_rate or 0) * 240 / 1000, 3)
dev_check_est_kw(charging_rate) ==
    LET rate == IF IsNone(charging_rate) \/ charging_rate = Some(0)
                THEN 0 ELSE Val(charging_rate)
    IN  Some(Round3(rate * 240, AmpPerKw))

\* ------------------------------------------------------------------ live power

\* A reply of vue.get_device_list_usage([gid], ...):
\*   [kind |-> "raise"]                      the call raises
\*   [kind |-> "missing"]                    usage.get(gid) is None
\*   [kind |-> "usage", channels |-> seq]    channel usages, each optional
RaiseReply == [kind |-> "raise"]

MissingReply == [kind |-> "missing"]

UsageReply(chs) == [kind |-> "usage", channels |-> chs]

\* The loop "for channel in device_usage.channels.values()" from channel i on,
\* carrying (total_kwh, has_data).
RECURSIVE SumLoop(_, _, _, _)
SumLoop(chs, i, total_kwh, has_data) ==
    IF i > Len(chs) THEN [total_kwh |-> total_kwh, has_data |-> has_data]
    ELSE IF ~IsNone(chs[i])
         THEN SumLoop(chs, i + 1, total_kwh + Val(chs[i]), TRUE)
         ELSE SumLoop(chs, i + 1, total_kwh, has_data)

\* The body shared by the three copies after the usage call returned.
Mut_live_from_usage_no_flag(reply) ==
    IF reply.kind = "missing" THEN None
    ELSE LET s == SumLoop(reply.channels, 1, 0, FALSE)
         IN  Some(Round3(s.total_kwh * 3600, KwhPerKw))

live_from_usage(reply) ==
    IF reply.kind = "missing" THEN None
    ELSE LET s == SumLoop(reply.channels, 1, 0, FALSE)
         IN  IF ~s.has_data THEN None
             ELSE Some(Round3(s.total_kwh * 3600, KwhPerKw))

\* sensor.py _get_live_power_kw: a raising usage call is caught and gives None.
Mut_get_live_power_kw_zero_on_raise(reply) ==
    IF reply.kind = "raise" THEN [raised |-> FALSE, value |-> Some(0)]
    ELSE [raised |-> FALSE, value |-> live_from_usage(reply)]

get_live_power_kw(reply) ==
    IF reply.kind = "raise" THEN [raised |-> FALSE, value |-> None]
    ELSE [raised |-> FALSE, value |-> live_from_usage(reply)]

\* dev_check.live_power_kw: a raising usage call propagates.
dev_check_live_power_kw(reply) ==
    IF reply.kind = "raise" THEN [raised |-> TRUE, value |-> None]
    ELSE IF reply.kind = "missing" THEN [raised |-> FALSE, value |-> None]
    ELSE LET s == SumLoop(reply.channels, 1, 0, FALSE)
         IN  [raised |-> FALSE,
              value |-> IF ~s.has_data THEN None
                        ELSE Some(Round3(s.total_kwh * 3600, KwhPerKw))]

\* verify_charger.live_power_kw: a raising usage call propagates.
verify_charger_live_power_kw(reply) ==
    IF reply.kind = "raise" THEN [raised |-> TRUE, value |-> None]
    ELSE IF reply.kind = "missing" THEN [raised |-> FALSE, value |-> None]
    ELSE LET s == SumLoop(reply.channels, 1, 0, FALSE)
         IN  [raised |-> FALSE,
              value |-> IF ~s.has_data THEN None
                        ELSE Some(Round3(s.total_kwh * 3600, KwhPerKw))]

\* ------------------------------------------------------------------ maps

EmptyMap == [g \in {} |-> None]

Put(m, k, v) == [x \in (DOMAIN m) \cup {k} |-> IF x = k THEN v ELSE m[x]]

\* dict.get(k): the entry, or None when k is not a key.
Get(m, k) == IF k \in DOMAIN m THEN Some(m[k]) ELSE None

\* The elements of a sequence.
Range(s) == {s[i] : i \in 1..Len(s)}

\* ------------------------------------------------------------------ remote data source

\* GIDs of the account's vehicles and EV chargers.
VehicleGids == {1, 2}

ChargerGids == {11, 12}

\* GIDs of the EV chargers of a second config entry's account.
SecondEntryGids == {21}

\* Exceptions the pyemvue client can raise.
RemoteErrors == {"ConnectionError", "AuthError"}

\* What get_vehicle_status can report.
VehicleReplies == {[battery_level |-> Some(80)], [battery_level |-> None]}

\* What get_devices_status can report for one charger.
ChargerReplies ==
    {[status |-> "", charger_on |-> FALSE, charging_rate |-> None],
     [status |-> "Charging", charger_on |-> TRUE, charging_rate |-> Some(16 * AmpScale)]}

\* What get_device_list_usage can do for one charger during a refresh.
UsageReplies ==
    {RaiseReply, MissingReply,
     UsageReply(<<Some(0)>>),
     UsageReply(<<Some(10000), None, Some(5000)>>)}

\* The lists get_devices_status can return for the requested devices: the
\* chargers among them that reported, ordered by GID.
RECURSIVE SeqOfSet(_)
SeqOfSet(S) ==
    IF S = {} THEN << >>
    ELSE LET m == CHOOSE x \in S : \A y \in S : x <= y
         IN  <<m>> \o SeqOfSet(S \ {m})

\* ------------------------------------------------------------------ state

VARIABLES
    \* coordinator revision
    co_vehicles,      \* VehicleVueDataCoordinator._vehicles (GIDs)
    co_chargers,      \* VehicleVueDataCoordinator._chargers (GIDs)
    data,             \* coordinator.data: None or Some(snapshot)
    pc,               \* position of _async_update_data
    cycle,            \* number of refresh cycles started
    vi,               \* index of the next vehicle in _fetch_vehicle_status
    vehicle_status,   \* local vehicle_status / statuses
    chargers,         \* local chargers
    charger_power,    \* local charger_power
    todo,             \* GIDs the "for gid in chargers" loop has yet to visit
    last_error,       \* exception _async_update_data ended with, if any
    failure,          \* the remote call that raised in this cycle, if any
    usage_log,        \* this cycle's get_device_list_usage replies, by GID
    \* standalone revision (vehiclevue-main)
    main_charger_devices,  \* module-level charger_devices (GIDs)
    vs_battery_level,      \* VehicleSensor.battery_level, by vehicle GID
    vs_extra_attributes,   \* VehicleSensor.extra_attributes, by vehicle GID
    cs_charger,            \* ChargerStatusSensor.charger, by charger GID
    cs_state,              \* ChargerStatusSensor._state, by charger GID
    cs_extra_attributes,   \* ChargerStatusSensor.extra_attributes
    main_fetched,          \* sensors (GIDs) whose update() fetched their status
    now,                   \* the clock, in seconds
    fetch_log,             \* get_devices_status calls of update(): time, sensor
    last_update,           \* the latest update() call: sensor, outcome, status got
    \* scripts and pure calculations
    in_rate,          \* a charger's charging_rate (optional amps)
    in_reply,         \* the get_device_list_usage reply for that charger
    results           \* what each program printed / showed for that charger

co_vars == <<co_vehicles, co_chargers, data, pc, cycle, vi, vehicle_status,
             chargers, charger_power, todo, last_error, failure, usage_log>>

main_vars == <<main_charger_devices, vs_battery_level, vs_extra_attributes,
               cs_charger, cs_state, cs_extra_attributes, main_fetched, now,
               fetch_log, last_update>>

calc_vars == <<in_rate, in_reply, results>>

vars == <<co_vars, main_vars, calc_vars>>

\* ------------------------------------------------------------------ coordinator

CoInit ==
    /\ co_vehicles = <<1, 2>>
    /\ co_chargers \in {<< >>, <<11, 12>>}
    /\ data = None
    /\ pc = "idle"
    /\ cycle = 0
    /\ vi = 1
    /\ vehicle_status = EmptyMap
    /\ chargers = EmptyMap
    /\ charger_power = EmptyMap
    /\ todo = << >>
    /\ last_error = None
    /\ failure = None
    /\ usage_log = EmptyMap

\* The refresh timer (or the first refresh of setup) calls _async_update_data.
StartCycle ==
    /\ pc = "idle"
    /\ cycle < MaxCycle
    /\ cycle' = cycle + 1
    /\ pc' = "vehicles"
    /\ vi' = 1
    /\ vehicle_status' = EmptyMap
    /\ chargers' = EmptyMap
    /\ charger_power' = EmptyMap
    /\ todo' = << >>
    /\ last_error' = None
    /\ failure' = None
    /\ usage_log' = EmptyMap
    /\ UNCHANGED <<co_vehicles, co_chargers, data>>
    /\ UNCHANGED <<main_vars, calc_vars>>

\* except Exception as err: raise UpdateFailed(...) from err.  The update
\* coordinator keeps coordinator.data when the update method raises.
Mut_RaiseUpdateFailed_clears(err) ==
    /\ last_error' = Some([type |-> "UpdateFailed", cause |-> Some(err)])
    /\ pc' = "idle"
    /\ data' = None

RaiseUpdateFailed(err) ==
    /\ last_error' = Some([type |-> "UpdateFailed", cause |-> Some(err)])
    /\ pc' = "idle"
    /\ data' = data

\* _fetch_vehicle_status: one get_vehicle_status call that returns.
FetchVehicleOk ==
    /\ pc = "vehicles"
    /\ vi <= Len(co_vehicles)
    /\ \E reply \in VehicleReplies :
          vehicle_status' = Put(vehicle_status, co_vehicles[vi],
                                [battery_level |-> reply.battery_level,
                                 fetched_in |-> cycle])
    /\ vi' = vi + 1
    /\ UNCHANGED <<co_vehicles, co_chargers, data, pc, cycle, chargers,
                   charger_power, todo, last_error, failure, usage_log>>
    /\ UNCHANGED <<main_vars, calc_vars>>

\* _fetch_vehicle_status: one get_vehicle_status call that raises; the
\* exception leaves the loop and the executor call.
FetchVehicleRaise ==
    /\ pc = "vehicles"
    /\ vi <= Len(co_vehicles)
    /\ \E err \in RemoteErrors :
          /\ failure' = Some([call |-> "get_vehicle_status",
                              gid |-> co_vehicles[vi], err |-> err])
          /\ RaiseUpdateFailed(err)
    /\ UNCHANGED <<co_vehicles, co_chargers, cycle, vi, vehicle_status,
                   chargers, charger_power, todo, usage_log>>
    /\ UNCHANGED <<main_vars, calc_vars>>

\* _fetch_vehicle_status returns statuses.
FetchVehiclesDone ==
    /\ pc = "vehicles"
    /\ vi > Len(co_vehicles)
    /\ pc' = "chargers"
    /\ UNCHANGED <<co_vehicles, co_chargers, data, cycle, vi, vehicle_status,
                   chargers, charger_power, todo, last_error, failure,
                   usage_log>>
    /\ UNCHANGED <<main_vars, calc_vars>>

\* _fetch_charger_status with no tracked charger: {} without a remote call.
FetchChargersNone ==
    /\ pc = "chargers"
    /\ co_chargers = << >>
    /\ chargers' = EmptyMap
    /\ todo' = << >>
    /\ pc' = "power"
    /\ UNCHANGED <<co_vehicles, co_chargers, data, cycle, vi, vehicle_status,
                   charger_power, last_error, failure, usage_log>>
    /\ UNCHANGED <<main_vars, calc_vars>>

\* _fetch_charger_status: get_devices_status returns.
FetchChargersOk ==
    /\ pc = "chargers"
    /\ co_chargers # << >>
    /\ \E reported \in SUBSET Range(co_chargers) :
       \E reply \in [reported -> ChargerReplies] :
          /\ chargers' = [g \in reported |->
                            [status |-> reply[g].status,
                             charger_on |-> reply[g].charger_on,
                             charging_rate |-> reply[g].charging_rate,
                             fetched_in |-> cycle]]
          /\ todo' = SeqOfSet(reported)
    /\ pc' = "power"
    /\ UNCHANGED <<co_vehicles, co_chargers, data, cycle, vi, vehicle_status,
                   charger_power, last_error, failure, usage_log>>
    /\ UNCHANGED <<main_vars, calc_vars>>

\* _fetch_charger_status: get_devices_status raises.
FetchChargersRaise ==
    /\ pc = "chargers"
    /\ co_chargers # << >>
    /\ \E err \in RemoteErrors :
          /\ failure' = Some([call |-> "get_devices_status", gid |-> 0,
                              err |-> err])
          /\ RaiseUpdateFailed(err)
    /\ UNCHANGED <<co_vehicles, co_chargers, cycle, vi, vehicle_status,
                   chargers, charger_power, todo, usage_log>>
    /\ UNCHANGED <<main_vars, calc_vars>>

\* One turn of "for gid in chargers": _get_live_power_kw in the executor, the
\* outer except recording None.
Mut_FetchLivePower_keeps_last ==
    /\ pc = "power"
    /\ todo # << >>
    /\ \E reply \in UsageReplies :
          LET gid == Head(todo)
              r == get_live_power_kw(reply)
              fresh == [kw |-> IF r.raised THEN None ELSE r.value,
                        fetched_in |-> cycle]
          IN  /\ charger_power' =
                    Put(charger_power, gid,
                        IF IsNone(fresh.kw) /\ ~IsNone(data)
                              /\ gid \in DOMAIN Val(data).charger_power_kw
                        THEN Val(data).charger_power_kw[gid]
                        ELSE fresh)
              /\ usage_log' = Put(usage_log, gid, reply)
    /\ todo' = Tail(todo)
    /\ UNCHANGED <<co_vehicles, co_chargers, data, pc, cycle, vi,
                   vehicle_status, chargers, last_error, failure>>
    /\ UNCHANGED <<main_vars, calc_vars>>

FetchLivePower ==
    /\ pc = "power"
    /\ todo # << >>
    /\ \E reply \in UsageReplies :
          LET gid == Head(todo)
              r == get_live_power_kw(reply)
          IN  /\ charger_power' =
                    Put(charger_power, gid,
                        [kw |-> IF r.raised THEN None ELSE r.value,
                         fetched_in |-> cycle])
              /\ usage_log' = Put(usage_log, gid, reply)
    /\ todo' = Tail(todo)
    /\ UNCHANGED <<co_vehicles, co_chargers, data, pc, cycle, vi,
                   vehicle_status, chargers, last_error, failure>>
    /\ UNCHANGED <<main_vars, calc_vars>>

\* return VehicleVueCoordinatorData(...): the coordinator stores the returned
\* object as coordinator.data.
Mut_Return_before_loop_end ==
    /\ pc = "power"
    /\ data' = Some([vehicle_status |-> vehicle_status,
                     chargers |-> chargers,
                     charger_power_kw |-> charger_power])
    /\ pc' = "idle"
    /\ UNCHANGED <<co_vehicles, co_chargers, cycle, vi, vehicle_status,
                   chargers, charger_power, todo, last_error, failure,
                   usage_log>>
    /\ UNCHANGED <<main_vars, calc_vars>>

Mut_Return_keeps_old_chargers ==
    /\ pc = "power"
    /\ todo = << >>
    /\ data' = Some([vehicle_status |-> vehicle_status,
                     chargers |-> IF IsNone(data) THEN chargers
                                  ELSE Val(data).chargers,
                     charger_power_kw |-> charger_power])
    /\ pc' = "idle"
    /\ UNCHANGED <<co_vehicles, co_chargers, cycle, vi, vehicle_status,
                   chargers, charger_power, todo, last_error, failure,
                   usage_log>>
    /\ UNCHANGED <<main_vars, calc_vars>>

Return ==
    /\ pc = "power"
    /\ todo = << >>
    /\ data' = Some([vehicle_status |-> vehicle_status,
                     chargers |-> chargers,
                     charger_power_kw |-> charger_power])
    /\ pc' = "idle"
    /\ UNCHANGED <<co_vehicles, co_chargers, cycle, vi, vehicle_status,
                   chargers, charger_power, todo, last_error, failure,
                   usage_log>>
    /\ UNCHANGED <<main_vars, calc_vars>>

\* ------------------------------------------------------------------ entity views (coordinator revision)

\* VehicleSensor._latest_status
VehicleSensor_latest_status(gid) ==
    IF IsNone(data) THEN None
    ELSE Get(Val(data).vehicle_status, gid)

\* VehicleSensor.native_value
VehicleSensor_native_value(gid) ==
    LET status == VehicleSensor_latest_status(gid)
    IN  IF ~IsNone(status) THEN Val(status).battery_level ELSE None

\* VehicleSensor.extra_state_attributes (as_dictionary of the status, or {})
VehicleSensor_extra_state_attributes(gid) ==
    LET status == VehicleSensor_latest_status(gid)
    IN  IF ~IsNone(status) THEN [battery_level |-> Val(status).battery_level]
        ELSE EmptyMap

\* ChargerStatusSensor._charger / ChargerPowerSensor._charger
Sensor_charger(gid) ==
    IF IsNone(data) THEN None
    ELSE Get(Val(data).chargers, gid)

\* coordinator.data.charger_power_kw.get(gid), None without data
Sensor_live_kw(gid) ==
    IF IsNone(data) THEN None
    ELSE IF gid \in DOMAIN Val(data).charger_power_kw
         THEN Val(data).charger_power_kw[gid].kw
         ELSE None

\* ChargerStatusSensor.native_value
ChargerStatusSensor_native_value(gid) ==
    LET charger == Sensor_charger(gid)
    IN  IF IsNone(charger) THEN None
        ELSE IF Val(charger).status # "" THEN Some(Val(charger).status)
        ELSE IF Val(charger).charger_on THEN Some("on") ELSE Some("off")

\* ChargerStatusSensor.extra_state_attributes
ChargerStatusSensor_extra_state_attributes(gid) ==
    LET charger == Sensor_charger(gid)
    IN  IF IsNone(charger) THEN EmptyMap
        ELSE [charger_on |-> Val(charger).charger_on,
              charging_rate |-> Val(charger).charging_rate,
              live_power_kw |-> Sensor_live_kw(gid)]

\* ChargerPowerSensor.native_value
Mut_ChargerPowerSensor_native_value_truthy(gid) ==
    LET charger == Sensor_charger(gid)
        live_kw == Sensor_live_kw(gid)
    IN  IF IsNone(charger) THEN None
        ELSE IF ~IsNone(live_kw) /\ live_kw # Some(0) THEN live_kw
        ELSE calculate_kw(Val(charger).charging_rate)

ChargerPowerSensor_native_value(gid) ==
    LET charger == Sensor_charger(gid)
        live_kw == Sensor_live_kw(gid)
    IN  IF IsNone(charger) THEN None
        ELSE IF ~IsNone(live_kw) THEN live_kw
        ELSE calculate_kw(Val(charger).charging_rate)

\* ChargerPowerSensor.extra_state_attributes
ChargerPowerSensor_extra_state_attributes(gid) ==
    LET charger == Sensor_charger(gid)
    IN  IF IsNone(charger) THEN EmptyMap
        ELSE [charger_on |-> Val(charger).charger_on,
              status |-> Val(charger).status,
              raw_charging_rate_amps |-> Val(charger).charging_rate,
              assumed_voltage |-> ASSUMED_VOLTAGE,
              live_power_kw |-> Sensor_live_kw(gid)]

CoNext ==
    \/ StartCycle
    \/ FetchVehicleOk
    \/ FetchVehicleRaise
    \/ FetchVehiclesDone
    \/ FetchChargersNone
    \/ FetchChargersOk
    \/ FetchChargersRaise
    \/ FetchLivePower
    \/ Return

\* ------------------------------------------------------------------ standalone revision

\* An instance attribute: None while it was never assigned, Some(v) after.
Unset == None

\* After async_setup_entry built the sensors (before the first update()).
MainInit ==
    /\ main_charger_devices = ChargerGids
    /\ vs_battery_level = [g \in VehicleGids |-> Unset]
    /\ vs_extra_attributes = [g \in VehicleGids |-> Unset]
    /\ cs_charger \in [ChargerGids -> ChargerReplies]
    /\ cs_state = [g \in ChargerGids |-> None]
    /\ cs_extra_attributes = [g \in ChargerGids |-> EmptyMap]
    /\ main_fetched = {}
    /\ now = 0
    /\ fetch_log = << >>
    /\ last_update = None

\* VehicleSensor.update, get_vehicle_status returns.
MainVehicleUpdateOk(g) ==
    /\ \E reply \in VehicleReplies :
          /\ vs_battery_level' = [vs_battery_level EXCEPT ![g] = Some(reply.battery_level)]
          /\ vs_extra_attributes' =
                [vs_extra_attributes EXCEPT
                    ![g] = Some([battery_level |-> reply.battery_level])]
          /\ last_update' = Some([by |-> g, outcome |-> "ok", got |-> Some(reply),
                                  devices |-> None])
    /\ main_fetched' = main_fetched \cup {g}
    /\ UNCHANGED <<main_charger_devices, cs_charger, cs_state,
                   cs_extra_attributes, now, fetch_log>>
    /\ UNCHANGED <<co_vars, calc_vars>>

\* VehicleSensor.update, get_vehicle_status raises: update() raises before
\* any assignment.
MainVehicleUpdateRaise(g) ==
    /\ \E err \in RemoteErrors : TRUE
    /\ last_update' = Some([by |-> g, outcome |-> "raise", got |-> None,
                            devices |-> None])
    /\ UNCHANGED <<main_charger_devices, vs_battery_level,
                   vs_extra_attributes, cs_charger, cs_state,
                   cs_extra_attributes, main_fetched, now, fetch_log>>
    /\ UNCHANGED <<co_vars, calc_vars>>

\* ChargerStatusSensor.update, lines 162-176: _state and extra_attributes
\* from self.charger.
StateOf(charger) ==
    IF charger.status # "" THEN Some(charger.status)
    ELSE IF charger.charger_on THEN Some("on") ELSE Some("off")

AttributesOf(charger) ==
    [charger_on |-> charger.charger_on,
     charging_rate |-> charger.charging_rate]

\* ChargerStatusSensor.update, line 149: the devices passed to
\* get_devices_status, read from the module-level charger_devices.
RequestedDevices ==
    IF main_charger_devices # {} THEN Some(main_charger_devices) ELSE None

\* ChargerStatusSensor.update, get_devices_status returns.
MainChargerUpdateOk(g) ==
    /\ Len(fetch_log) < MaxFetches
    /\ fetch_log' = Append(fetch_log, [at |-> now, by |-> g])
    /\ \E reported \in SUBSET ChargerGids :
       \E reply \in [reported -> ChargerReplies] :
          LET charger == IF g \in reported THEN reply[g] ELSE cs_charger[g]
          IN  /\ cs_charger' = [cs_charger EXCEPT ![g] = charger]
              /\ cs_state' = [cs_state EXCEPT ![g] = StateOf(charger)]
              /\ cs_extra_attributes' =
                    [cs_extra_attributes EXCEPT ![g] = AttributesOf(charger)]
              /\ main_fetched' = IF g \in reported THEN main_fetched \cup {g}
                                 ELSE main_fetched
              /\ last_update' =
                    IF g \in reported
                    THEN Some([by |-> g, outcome |-> "ok", got |-> Some(reply[g]),
                               devices |-> RequestedDevices])
                    ELSE Some([by |-> g, outcome |-> "absent", got |-> None,
                               devices |-> RequestedDevices])
    /\ UNCHANGED <<main_charger_devices, vs_battery_level,
                   vs_extra_attributes, now>>
    /\ UNCHANGED <<co_vars, calc_vars>>

\* ChargerStatusSensor.update, get_devices_status raises: logged, then
\* _state and extra_attributes are recomputed from the charger held.
Mut_MainChargerUpdateRaise_clears(g) ==
    /\ Len(fetch_log) < MaxFetches
    /\ fetch_log' = Append(fetch_log, [at |-> now, by |-> g])
    /\ \E err \in RemoteErrors : TRUE
    /\ cs_state' = [cs_state EXCEPT ![g] = None]
    /\ cs_extra_attributes' = [cs_extra_attributes EXCEPT ![g] = EmptyMap]
    /\ last_update' = Some([by |-> g, outcome |-> "raise", got |-> None,
                            devices |-> RequestedDevices])
    /\ UNCHANGED <<main_charger_devices, vs_battery_level,
                   vs_extra_attributes, cs_charger, main_fetched, now>>
    /\ UNCHANGED <<co_vars, calc_vars>>

MainChargerUpdateRaise(g) ==
    /\ Len(fetch_log) < MaxFetches
    /\ fetch_log' = Append(fetch_log, [at |-> now, by |-> g])
    /\ \E err \in RemoteErrors : TRUE
    /\ cs_state' = [cs_state EXCEPT ![g] = StateOf(cs_charger[g])]
    /\ cs_extra_attributes' =
          [cs_extra_attributes EXCEPT ![g] = AttributesOf(cs_charger[g])]
    /\ last_update' = Some([by |-> g, outcome |-> "raise", got |-> None,
                            devices |-> RequestedDevices])
    /\ UNCHANGED <<main_charger_devices, vs_battery_level,
                   vs_extra_attributes, cs_charger, main_fetched, now>>
    /\ UNCHANGED <<co_vars, calc_vars>>

\* async_setup_entry runs for a second config entry: charger_devices is
\* cleared and refilled with that entry's chargers (that entry's sensors are
\* other objects, not followed here).
MainSetupSecondEntry ==
    /\ main_charger_devices = ChargerGids
    /\ \E devs \in SUBSET SecondEntryGids : main_charger_devices' = devs
    /\ UNCHANGED <<vs_battery_level, vs_extra_attributes, cs_charger,
                   cs_state, cs_extra_attributes, main_fetched, now,
                   fetch_log, last_update>>
    /\ UNCHANGED <<co_vars, calc_vars>>

\* One second passes.
Tick ==
    /\ now < MaxTime
    /\ now' = now + 1
    /\ UNCHANGED <<main_charger_devices, vs_battery_level,
                   vs_extra_attributes, cs_charger, cs_state,
                   cs_extra_attributes, main_fetched, fetch_log,
                   last_update>>
    /\ UNCHANGED <<co_vars, calc_vars>>

\* Reading an attribute that was never assigned raises AttributeError.
ReadAttribute(slot) ==
    IF slot = Unset THEN [raised |-> TRUE, value |-> None]
    ELSE [raised |-> FALSE, value |-> Val(slot)]

\* VehicleSensor.native_value (standalone revision)
main_VehicleSensor_native_value(g) == ReadAttribute(vs_battery_level[g])

\* VehicleSensor.extra_state_attributes (standalone revision)
main_VehicleSensor_extra_state_attributes(g) ==
    ReadAttribute(vs_extra_attributes[g])

\* ChargerStatusSensor.native_value (standalone revision)
main_ChargerStatusSensor_native_value(g) ==
    [raised |-> FALSE, value |-> cs_state[g]]

\* ChargerStatusSensor.extra_state_attributes (standalone revision)
main_ChargerStatusSensor_extra_state_attributes(g) ==
    [raised |-> FALSE, value |-> cs_extra_attributes[g]]

MainNext ==
    \/ \E g \in VehicleGids : MainVehicleUpdateOk(g)
    \/ \E g \in VehicleGids : MainVehicleUpdateRaise(g)
    \/ \E g \in ChargerGids : MainChargerUpdateOk(g)
    \/ \E g \in ChargerGids : MainChargerUpdateRaise(g)
    \/ MainSetupSecondEntry
    \/ Tick

\* ------------------------------------------------------------------ scripts

\* Channel usages a reply can hold, and the replies made of them.
ChannelValues == {None, Some(0), Some(1), Some(2), Some(5000), Some(10000)}

SeqsUpTo(S, n) == UNION {[1..k -> S] : k \in 0..n}

CalcReplies ==
    {RaiseReply, MissingReply}
        \cup {UsageReply(chs) : chs \in SeqsUpTo(ChannelValues, MaxChannels)}

RateInputs ==
    {None} \cup {Some(a) : a \in (0..MaxRate) \cup {16 * AmpScale}}

CalcInit ==
    /\ in_rate \in RateInputs
    /\ in_reply \in CalcReplies
    /\ results = EmptyMap

\* ChargerPowerSensor of the integration: _get_live_power_kw during the
\* refresh, _calculate_kw(charger.charging_rate) for the fallback.
IntegrationCharger ==
    /\ "sensor" \notin DOMAIN results
    /\ results' = Put(results, "sensor",
                      [kw |-> calculate_kw(in_rate),
                       live_kw |-> get_live_power_kw(in_reply).value])
    /\ UNCHANGED <<in_rate, in_reply>>
    /\ UNCHANGED <<co_vars, main_vars>>

\* dev_check.main, lines 63-74, for one charger.
DevCheckCharger ==
    /\ "dev_check" \notin DOMAIN results
    /\ LET r == dev_check_live_power_kw(in_reply)
       IN  results' = Put(results, "dev_check",
                          [kw |-> dev_check_est_kw(in_rate),
                           live_kw |-> IF r.raised THEN None ELSE r.value])
    /\ UNCHANGED <<in_rate, in_reply>>
    /\ UNCHANGED <<co_vars, main_vars>>

\* verify_charger.main, lines 69-85, for one charger.
VerifyCharger ==
    /\ "verify_charger" \notin DOMAIN results
    /\ LET r == verify_charger_live_power_kw(in_reply)
       IN  results' = Put(results, "verify_charger",
                          [kw |-> estimate_kw(in_rate),
                           live_kw |-> IF r.raised THEN None ELSE r.value])
    /\ UNCHANGED <<in_rate, in_reply>>
    /\ UNCHANGED <<co_vars, main_vars>>

CalcNext ==
    \/ IntegrationCharger
    \/ DevCheckCharger
    \/ VerifyCharger

\* ------------------------------------------------------------------ specifications

\* The parts a specification leaves alone.
CoQuiet ==
    /\ co_vehicles = <<1, 2>>
    /\ co_chargers = <<11, 12>>
    /\ data = None
    /\ pc = "idle"
    /\ cycle = 0
    /\ vi = 1
    /\ vehicle_status = EmptyMap
    /\ chargers = EmptyMap
    /\ charger_power = EmptyMap
    /\ todo = << >>
    /\ last_error = None
    /\ failure = None
    /\ usage_log = EmptyMap

MainQuiet ==
    /\ main_charger_devices = ChargerGids
    /\ vs_battery_level = [g \in VehicleGids |-> Unset]
    /\ vs_extra_attributes = [g \in VehicleGids |-> Unset]
    /\ cs_charger = [g \in ChargerGids |->
                       [status |-> "", charger_on |-> FALSE,
                        charging_rate |-> None]]
    /\ cs_state = [g \in ChargerGids |-> None]
    /\ cs_extra_attributes = [g \in ChargerGids |-> EmptyMap]
    /\ main_fetched = {}
    /\ now = 0
    /\ fetch_log = << >>
    /\ last_update = None

CalcQuiet ==
    /\ in_rate = None
    /\ in_reply = MissingReply
    /\ results = EmptyMap

\* The coordinator revision.
Init == CoInit /\ MainQuiet /\ CalcQuiet

Next == CoNext

Spec == Init /\ [][Next]_vars

\* The standalone revision.
InitMain == MainInit /\ CoQuiet /\ CalcQuiet

NextMain == MainNext

SpecMain == InitMain /\ [][NextMain]_vars

\* The power calculations of the integration and of the two scripts.
InitCalc == CalcInit /\ CoQuiet /\ MainQuiet

NextCalc == CalcNext

SpecCalc == InitCalc /\ [][NextCalc]_vars

\* ------------------------------------------------------------------ properties

\* The cycles whose fetches produced the parts of a snapshot.
VehicleStamps(d) == {d.vehicle_status[g].fetched_in : g \in DOMAIN d.vehicle_status}

ChargerStamps(d) == {d.chargers[g].fetched_in : g \in DOMAIN d.chargers}

PowerStamps(d) == {d.charger_power_kw[g].fetched_in : g \in DOMAIN d.charger_power_kw}

\* The non-absent usages of a channel list, and their sum.
PresentChannels(chs) == {i \in 1..Len(chs) : ~IsNone(chs[i])}

RECURSIVE SumOver(_, _)
SumOver(chs, I) ==
    IF I = {} THEN 0
    ELSE LET i == CHOOSE j \in I : TRUE
         IN  Val(chs[i]) + SumOver(chs, I \ {i})

\* kw (in 1/KwScale kW) is num/den rounded to the nearest 1/KwScale.
IsRounded(kw, num, den) ==
    /\ 2 * (kw * den - num) <= den
    /\ 2 * (num - kw * den) <= den

\* C1: when the vehicle-status fetch or the charger batch-status fetch raises,
\* the cycle ends with UpdateFailed carrying that exception as its cause and
\* coordinator.data is what it was before.
C1_FailedFetchKeepsSnapshot ==
    [][(IsNone(failure) /\ ~IsNone(failure'))
        => /\ pc \in {"vehicles", "chargers"}
           /\ pc' = "idle"
           /\ last_error' = Some([type |-> "UpdateFailed",
                                  cause |-> Some(Val(failure').err)])
           /\ data' = data]_vars

C1_Witness ==
    /\ pc = "idle"
    /\ ~IsNone(failure)
    /\ Val(failure).call = "get_devices_status"
    /\ ~IsNone(last_error)
    /\ ~IsNone(data)
    /\ DOMAIN Val(data).chargers # {}

\* C2: a cycle whose two batch fetches succeeded publishes a snapshot with
\* every fetched vehicle status and charger status, whatever subset of the
\* usage calls raised; the power entry of a charger whose usage call raised is
\* None, and that of every other charger is what its own usage reply gives
\* (None only when that reply holds no channel value).
C2_PowerFailuresIsolated ==
    (pc = "idle" /\ cycle > 0 /\ IsNone(failure)) =>
        /\ ~IsNone(data)
        /\ Val(data).vehicle_status = vehicle_status
        /\ DOMAIN Val(data).vehicle_status = Range(co_vehicles)
        /\ VehicleStamps(Val(data)) \subseteq {cycle}
        /\ Val(data).chargers = chargers
        /\ ChargerStamps(Val(data)) \subseteq {cycle}
        /\ DOMAIN Val(data).charger_power_kw = DOMAIN chargers
        /\ \A g \in DOMAIN chargers :
              LET reply == usage_log[g]
                  kw == Val(data).charger_power_kw[g].kw
              IN  /\ reply.kind \in {"raise", "missing"} => IsNone(kw)
                  /\ reply.kind = "usage" =>
                       LET I == PresentChannels(reply.channels)
                       IN  IF I = {} THEN IsNone(kw)
                           ELSE /\ ~IsNone(kw)
                                /\ IsRounded(Val(kw),
                                             SumOver(reply.channels, I) * 3600,
                                             KwhPerKw)

C2_Witness ==
    /\ pc = "idle"
    /\ IsNone(failure)
    /\ ~IsNone(data)
    /\ DOMAIN Val(data).chargers = {11, 12}
    /\ usage_log[11].kind = "raise"
    /\ usage_log[12].kind = "usage"
    /\ Val(data).charger_power_kw[11].kw = None
    /\ Val(data).charger_power_kw[12].kw = Some(5400)

\* C3: when get_vehicle_status raises for one vehicle, the statuses fetched
\* for the other vehicles in that cycle are published in that cycle's
\* snapshot.
C3_OtherEntitiesPublished ==
    (pc = "idle" /\ ~IsNone(failure)
       /\ Val(failure).call = "get_vehicle_status") =>
        \A g \in DOMAIN vehicle_status :
            /\ ~IsNone(data)
            /\ g \in DOMAIN Val(data).vehicle_status
            /\ Val(data).vehicle_status[g] = vehicle_status[g]

\* C4: every part of coordinator.data was fetched in the same cycle.
C4_SnapshotFromOneCycle ==
    ~IsNone(data) =>
        Cardinality(VehicleStamps(Val(data)) \cup ChargerStamps(Val(data))
                    \cup PowerStamps(Val(data))) <= 1

C4_Witness ==
    /\ cycle = 2
    /\ pc = "power"
    /\ DOMAIN vehicle_status # {}
    /\ DOMAIN chargers # {}
    /\ ~IsNone(data)
    /\ VehicleStamps(Val(data)) = {1}
    /\ ChargerStamps(Val(data)) = {1}
    /\ PowerStamps(Val(data)) = {1}

\* C7: ChargerPowerSensor.native_value is the snapshot's live power whenever
\* that is not None (0.0 included), else the amps estimate, and is None only
\* when both are None or the charger is not in the snapshot.
C7_LivePowerPreferred ==
    \A g \in ChargerGids :
        LET nv == ChargerPowerSensor_native_value(g)
        IN  IF IsNone(data) \/ g \notin DOMAIN Val(data).chargers
            THEN IsNone(nv)
            ELSE LET live == Val(data).charger_power_kw[g].kw
                     rate == Val(data).chargers[g].charging_rate
                 IN  /\ ~IsNone(live) => nv = live
                     /\ (IsNone(live) /\ ~IsNone(rate)) =>
                           /\ ~IsNone(nv)
                           /\ IsRounded(Val(nv), Val(rate) * 240, AmpPerKw)
                     /\ (IsNone(live) /\ IsNone(rate)) => IsNone(nv)

C7_Witness ==
    /\ ~IsNone(data)
    /\ DOMAIN Val(data).chargers = {11, 12}
    /\ Val(data).charger_power_kw[11].kw = Some(0)
    /\ Val(data).chargers[11].charging_rate = Some(16 * AmpScale)
    /\ ChargerPowerSensor_native_value(11) = Some(0)
    /\ Val(data).charger_power_kw[12].kw = None
    /\ Val(data).chargers[12].charging_rate = Some(16 * AmpScale)
    /\ ChargerPowerSensor_native_value(12) = Some(3840)

\* A usage reply that holds no channel value.
NoChannelData(reply) ==
    \/ reply.kind \in {"raise", "missing"}
    \/ PresentChannels(reply.channels) = {}

\* C5: status requests that different charger entities make within
\* TTL_SECONDS of each other cause a single get_devices_status call: calls
\* made for two different entities are at least TTL_SECONDS apart.
C5_OneFetchPerTtl ==
    \A i, j \in 1..Len(fetch_log) :
        (i < j /\ fetch_log[i].by # fetch_log[j].by)
            => fetch_log[j].at - fetch_log[i].at >= TTL_SECONDS

\* C6: wherever a power value is derived, an absent charging rate gives an
\* absent estimate and a reply without channel values gives an absent live
\* power, never 0.
C6_AbsentNeverZero ==
    \A k \in DOMAIN results :
        /\ IsNone(in_rate) => IsNone(results[k].kw)
        /\ NoChannelData(in_reply) => IsNone(results[k].live_kw)

\* C8: the live power is the sum of the non-absent channel usages times 3600,
\* rounded to 3 decimals; it is absent when no channel reported, when the
\* reply has no entry for the charger, or when the usage call raises; the
\* three copies give the same value for every reply that does not raise, and
\* channels [0.001, None, 0.0005] give 5.4.
C8_LivePowerSum ==
    /\ \A k \in DOMAIN results :
          IF NoChannelData(in_reply) THEN IsNone(results[k].live_kw)
          ELSE /\ ~IsNone(results[k].live_kw)
               /\ IsRounded(Val(results[k].live_kw),
                            SumOver(in_reply.channels,
                                    PresentChannels(in_reply.channels)) * 3600,
                            KwhPerKw)
    /\ \A k1, k2 \in DOMAIN results :
          in_reply.kind # "raise" => results[k1].live_kw = results[k2].live_kw
    /\ (in_reply = UsageReply(<<Some(10000), None, Some(5000)>>)
          /\ "sensor" \in DOMAIN results) =>
             results["sensor"].live_kw = Some(5400)

C8_Witness ==
    /\ DOMAIN results = {"sensor", "dev_check", "verify_charger"}
    /\ in_reply = UsageReply(<<Some(10000), None, Some(5000)>>)
    /\ results["sensor"].live_kw = Some(5400)
    /\ results["dev_check"].live_kw = Some(5400)
    /\ results["verify_charger"].live_kw = Some(5400)

\* C9: for amps >= 0 the estimate is amps * 240 / 1000 rounded to 3 decimals
\* (16 A gives 3.84 kW), for absent amps it is absent, and _calculate_kw and
\* estimate_kw agree.
C9_AmpsEstimate ==
    /\ \A k \in DOMAIN results \cap {"sensor", "verify_charger"} :
          IF IsNone(in_rate) THEN IsNone(results[k].kw)
          ELSE /\ ~IsNone(results[k].kw)
               /\ IsRounded(Val(results[k].kw), Val(in_rate) * 240, AmpPerKw)
               /\ in_rate = Some(16 * AmpScale) => results[k].kw = Some(3840)
    /\ {"sensor", "verify_charger"} \subseteq DOMAIN results =>
          results["sensor"].kw = results["verify_charger"].kw

C9_Witness ==
    /\ {"sensor", "verify_charger"} \subseteq DOMAIN results
    /\ in_rate = Some(16 * AmpScale)
    /\ results["sensor"].kw = Some(3840)
    /\ results["verify_charger"].kw = Some(3840)

\* C10: before any successful fetch of a sensor's data, its native_value is
\* None and its extra_state_attributes are empty, and neither read raises, in
\* both revisions.
C10_NoneBeforeFetch ==
    /\ \A g \in VehicleGids \ main_fetched :
          /\ main_VehicleSensor_native_value(g) = [raised |-> FALSE, value |-> None]
          /\ main_VehicleSensor_extra_state_attributes(g)
                = [raised |-> FALSE, value |-> EmptyMap]
    /\ IsNone(data) =>
          /\ \A g \in VehicleGids :
                /\ IsNone(VehicleSensor_native_value(g))
                /\ VehicleSensor_extra_state_attributes(g) = EmptyMap
          /\ \A g \in ChargerGids :
                /\ IsNone(ChargerStatusSensor_native_value(g))
                /\ ChargerStatusSensor_extra_state_attributes(g) = EmptyMap
                /\ IsNone(ChargerPowerSensor_native_value(g))
                /\ ChargerPowerSensor_extra_state_attributes(g) = EmptyMap

\* The sensor and outcome of the update() call a step ends with.
UpdatedBy(u, g, outcomes) ==
    /\ ~IsNone(u)
    /\ Val(u).by = g
    /\ Val(u).outcome \in outcomes

\* C11 as stated: an update() whose remote call fails, or whose batch result
\* lacks the sensor's GID, leaves the held status and the state and
\* attributes of the sensor unchanged.
C11_FailedUpdateChangesNothing ==
    [][/\ \A g \in VehicleGids :
             UpdatedBy(last_update', g, {"raise"}) =>
                /\ vs_battery_level'[g] = vs_battery_level[g]
                /\ vs_extra_attributes'[g] = vs_extra_attributes[g]
       /\ \A g \in ChargerGids :
             UpdatedBy(last_update', g, {"raise", "absent"}) =>
                /\ cs_charger'[g] = cs_charger[g]
                /\ cs_state'[g] = cs_state[g]
                /\ cs_extra_attributes'[g] = cs_extra_attributes[g]]_vars

\* C11 amended: a successful update() replaces the held status by the one
\* fetched; a failed one (or one whose batch result lacks the GID) leaves the
\* held status unchanged; a ChargerStatusSensor's state and attributes are
\* those of the held status after every update(), so they are unchanged by a
\* failed update() once any update() has run, while the first update() after
\* construction sets them from the status fetched at setup even when it fails.
C11_ReplaceOnSuccessRetainOnFailure ==
    [][/\ \A g \in VehicleGids :
             /\ UpdatedBy(last_update', g, {"raise"}) =>
                   /\ vs_battery_level'[g] = vs_battery_level[g]
                   /\ vs_extra_attributes'[g] = vs_extra_attributes[g]
             /\ UpdatedBy(last_update', g, {"ok"}) =>
                   /\ vs_battery_level'[g]
                         = Some(Val(Val(last_update').got).battery_level)
                   /\ vs_extra_attributes'[g]
                         = Some([battery_level |->
                                   Val(Val(last_update').got).battery_level])
       /\ \A g \in ChargerGids :
             /\ UpdatedBy(last_update', g, {"raise", "absent"}) =>
                   /\ cs_charger'[g] = cs_charger[g]
                   /\ ~IsNone(cs_state[g]) =>
                         /\ cs_state'[g] = cs_state[g]
                         /\ cs_extra_attributes'[g] = cs_extra_attributes[g]
             /\ UpdatedBy(last_update', g, {"ok"}) =>
                   cs_charger'[g] = Val(Val(last_update').got)
             /\ UpdatedBy(last_update', g, {"ok", "raise", "absent"}) =>
                   /\ cs_state'[g] = StateOf(cs_charger'[g])
                   /\ cs_extra_attributes'[g] = AttributesOf(cs_charger'[g])]_vars

C11_Witness ==
    /\ UpdatedBy(last_update, 11, {"raise"})
    /\ 11 \in main_fetched
    /\ cs_charger[11].status = "Charging"
    /\ cs_state[11] = Some("Charging")
    /\ 1 \in main_fetched
    /\ vs_battery_level[1] = Some(Some(80))

\* C12: the power entries of a published snapshot are those of the cycle
\* that published it: each was fetched in that cycle, and is None when that
\* cycle's usage call raised or reported no data, whatever the previous
\* snapshot held for the charger.
C12_PowerNotCarriedOver ==
    [][(pc = "power" /\ pc' = "idle") =>
          /\ ~IsNone(data')
          /\ \A g \in DOMAIN Val(data').charger_power_kw :
                /\ Val(data').charger_power_kw[g].fetched_in = cycle
                /\ g \in DOMAIN usage_log
                /\ NoChannelData(usage_log[g])
                      => IsNone(Val(data').charger_power_kw[g].kw)]_vars

\* Cycle 2 is about to publish: cycle 1 measured 5.4 kW for charger 11 and
\* cycle 2's usage call for it raised.
C12_Witness ==
    /\ cycle = 2
    /\ pc = "power"
    /\ todo = << >>
    /\ ~IsNone(data)
    /\ 11 \in DOMAIN Val(data).charger_power_kw
    /\ Val(data).charger_power_kw[11] = [kw |-> Some(5400), fetched_in |-> 1]
    /\ 11 \in DOMAIN charger_power
    /\ usage_log[11].kind = "raise"
    /\ charger_power[11] = [kw |-> None, fetched_in |-> 2]

\* C13: a live-power fetch happens only after all vehicle statuses and the
\* charger statuses of the cycle were fetched without a failure; the snapshot
\* is assembled only when every charger of the cycle has had its live-power
\* fetch; every published snapshot has a power entry for exactly its chargers.
C13_StepsOrdered ==
    [][/\ usage_log' # usage_log /\ usage_log' # EmptyMap =>
             /\ pc = "power"
             /\ IsNone(failure)
             /\ DOMAIN vehicle_status = Range(co_vehicles)
             /\ VehicleStamps([vehicle_status |-> vehicle_status]) \subseteq {cycle}
             /\ DOMAIN usage_log' \subseteq DOMAIN chargers
             /\ ChargerStamps([chargers |-> chargers]) \subseteq {cycle}
       /\ (pc = "power" /\ pc' = "idle") =>
             /\ DOMAIN usage_log = DOMAIN chargers
             /\ DOMAIN charger_power = DOMAIN chargers
       /\ ~IsNone(data') =>
             DOMAIN Val(data').charger_power_kw = DOMAIN Val(data').chargers]_vars

C13_Witness ==
    /\ pc = "idle"
    /\ cycle = 2
    /\ IsNone(failure)
    /\ ~IsNone(data)
    /\ DOMAIN Val(data).chargers = {11, 12}
    /\ DOMAIN Val(data).charger_power_kw = {11, 12}
    /\ usage_log[11].kind = "raise"
    /\ usage_log[12].kind = "raise"
    /\ ChargerStamps(Val(data)) = {2}

\* C14: whatever setups and refreshes happened, every update() of a charger
\* sensor of the first config entry requests status for that entry's chargers.
C14_TrackedSetFixed ==
    \A g \in ChargerGids :
        UpdatedBy(last_update, g, {"ok", "raise", "absent"})
            => Val(last_update).devices = Some(ChargerGids)

====
